---- MODULE Spec2Model ----
(***************************************************************************)
(* A model of tesserae.tokenizers.base.BaseTokenizer: the normalizer, the  *)
(* two regular-expression splitters, the alignment loop of tokenize and    *)
(* the session state (tokens, frequencies, feature_sets) it records into.  *)
(*                                                                         *)
(* A string is a sequence of code points; a code point is written as a     *)
(* one-character TLA+ string, or as "U+xxxx" for a non-ASCII code point.   *)
(***************************************************************************)
EXTENDS Integers, Sequences, FiniteSets, TLC

(***************************************************************************)
(* Bounds of the model.                                                    *)
(***************************************************************************)
\* a recording call is taken only while the session token list stays within
\* this many Tokens
MaxTokens == 3

(***************************************************************************)
(* Character classes of the patterns in __init__ and tokenize.             *)
(***************************************************************************)
LowerLetters == {"a", "b"}
UpperLetters == {"A", "B"}
Digits == {"1"}
\* U+00E1 is a precomposed letter (a with acute); \w matches it, a-zA-Z does not
OtherLetters == {"U+00E1"}
Whitespace == {" ", "\n"}

\* self.word_characters = 'a-zA-Z'
word_characters == LowerLetters \cup UpperLetters

\* self.diacriticals: U+0301 stands for the combining marks of the list
diacriticals == {"U+0301"}

\* \w under re.UNICODE: letters, digits and the underscore
IsWord(c) == c \in word_characters \cup Digits \cup OtherLetters \cup {"_"}

\* the literal alternatives of self.split_pattern: ' / ', ' \. \. \.', '\.\~\.\~\.'
SplitLiterals ==
    << <<" ", "/", " ">>,
       <<" ", ".", " ", ".", " ", ".">>,
       <<".", "~", ".", "~", ".">> >>

\* the last alternative of self.split_pattern: [^\w + diacriticals]
IsSplitChar(c) == ~IsWord(c) /\ c \notin diacriticals

RECURSIVE Flatten(_)
Flatten(ss) == IF ss = <<>> THEN <<>> ELSE Head(ss) \o Flatten(Tail(ss))

\* s has the literal lit at position i
MatchesAt(s, i, lit) ==
    /\ i + Len(lit) - 1 <= Len(s)
    /\ \A k \in 1..Len(lit) : s[i + k - 1] = lit[k]

Max(S) == CHOOSE m \in S : \A n \in S : n <= m

(***************************************************************************)
(* normalize: NFKD, then lower().                                          *)
(***************************************************************************)
\* unicodedata.normalize('NFKD', c) for one code point
NFKD(c) == IF c = "U+00E1" THEN <<"a", "U+0301">> ELSE <<c>>

\* str.lower() for one code point
Lower(c) ==
    CASE c = "A" -> "a"
      [] c = "B" -> "b"
      [] OTHER -> c

normalize(raw) ==
    LET decomposed == Flatten([i \in 1..Len(raw) |-> NFKD(raw[i])])
    IN  [i \in 1..Len(decomposed) |-> Lower(decomposed[i])]

(***************************************************************************)
(* The annotation span '<.+>\s' (written '[<].+[>][\s]' in split_pattern): *)
(* '.+' is greedy and does not match a newline.  AnnotationEnd is the      *)
(* position of the whitespace that ends the span opened at i, 0 when no    *)
(* span opens there.                                                       *)
(***************************************************************************)
AnnotationEnd(s, i) ==
    LET closers == {j \in (i + 2)..(Len(s) - 1) :
                        /\ s[j] = ">"
                        /\ s[j + 1] \in Whitespace
                        /\ \A k \in (i + 1)..(j - 1) : s[k] # "\n"}
    IN  IF s[i] = "<" /\ closers # {} THEN Max(closers) + 1 ELSE 0

\* re.sub(r'<.+>\s', '', raw)
RECURSIVE StripFrom(_, _)
StripFrom(s, i) ==
    IF i > Len(s) THEN <<>>
    ELSE IF AnnotationEnd(s, i) # 0 THEN StripFrom(s, AnnotationEnd(s, i) + 1)
    ELSE <<s[i]>> \o StripFrom(s, i + 1)

StripAnnotations(s) == StripFrom(s, 1)

\* re.sub(r'[\n]', r' / ', raw)
ReplaceNewlines(s) ==
    Flatten([i \in 1..Len(s) |-> IF s[i] = "\n" THEN <<" ", "/", " ">> ELSE <<s[i]>>])

(***************************************************************************)
(* The normalized split: re.split(self.split_pattern, normalized) with the *)
(* empty pieces dropped.  At each position the alternatives are tried in   *)
(* the pattern's order.                                                    *)
(***************************************************************************)
Flush(out, cur) == IF cur = <<>> THEN out ELSE Append(out, cur)

RECURSIVE SplitFrom(_, _, _, _)
SplitFrom(s, i, cur, out) ==
    IF i > Len(s) THEN Flush(out, cur)
    ELSE IF AnnotationEnd(s, i) # 0
         THEN SplitFrom(s, AnnotationEnd(s, i) + 1, <<>>, Flush(out, cur))
    ELSE IF \E l \in 1..Len(SplitLiterals) : MatchesAt(s, i, SplitLiterals[l])
         THEN LET l == CHOOSE m \in 1..Len(SplitLiterals) :
                           /\ MatchesAt(s, i, SplitLiterals[m])
                           /\ \A n \in 1..(m - 1) : ~MatchesAt(s, i, SplitLiterals[n])
              IN  SplitFrom(s, i + Len(SplitLiterals[l]), <<>>, Flush(out, cur))
    ELSE IF IsSplitChar(s[i])
         THEN SplitFrom(s, i + 1, <<>>, Flush(out, cur))
    ELSE SplitFrom(s, i + 1, Append(cur, s[i]), out)

NormalizedStream(raw) == SplitFrom(normalize(raw), 1, <<>>, <<>>)

(***************************************************************************)
(* The display split: re.split('( / )|([^a-zA-Z])', raw) with the empty    *)
(* and None pieces dropped; the delimiters are kept as tokens.             *)
(***************************************************************************)
RECURSIVE DisplayFrom(_, _, _, _)
DisplayFrom(s, i, cur, out) ==
    IF i > Len(s) THEN Flush(out, cur)
    ELSE IF MatchesAt(s, i, <<" ", "/", " ">>)
         THEN DisplayFrom(s, i + 3, <<>>, Append(Flush(out, cur), <<" ", "/", " ">>))
    ELSE IF s[i] \notin word_characters
         THEN DisplayFrom(s, i + 1, <<>>, Append(Flush(out, cur), <<s[i]>>))
    ELSE DisplayFrom(s, i + 1, Append(cur, s[i]), out)

DisplayStream(raw) == DisplayFrom(ReplaceNewlines(StripAnnotations(raw)), 1, <<>>, <<>>)

\* re.search('[a-zA-Z]', d)
IsWordBearing(d) == \E k \in 1..Len(d) : d[k] \in word_characters

(***************************************************************************)
(* Values of the program.                                                  *)
(***************************************************************************)
\* Python's None
None == [none |-> TRUE]

\* a tesserae.db.Text, of which tokenize reads only .language
Text(language) == [language |-> language]

\* The featurize of a language subclass: one feature bundle per normalized
\* token, in order.
Featurized(normalized) ==
    [i \in 1..Len(normalized) |-> [lemmata |-> normalized[i]]]

\* FeatureSet(form=n, language=language, **f): a new object, oid its identity
FeatureSet(oid, n, language, f) ==
    [oid |-> oid, form |-> n, language |-> language, features |-> f]

\* A FeatureSet the persisted store holds for (form, language); the stored
\* entity is its identity (oid 0 is no object of this process).
PersistedFeatureSet(n, language) ==
    [oid |-> 0, form |-> n, language |-> language, features |-> [lemmata |-> n]]

\* Frequency(text=text, feature_set=feature_set, frequency=count)
Frequency(oid, text, feature_set, count) ==
    [oid |-> oid, text |-> text, feature_set |-> feature_set, frequency |-> count]

\* Token(text=text, index=idx, display=d, feature_set=.., frequency=..)
Token(text, idx, d, feature_set, frequency) ==
    [text |-> text, index |-> idx, display |-> d,
     feature_set |-> feature_set, frequency |-> frequency]

\* collections.Counter(normalized)
Counter(normalized) ==
    [n \in {normalized[i] : i \in 1..Len(normalized)} |->
        Cardinality({i \in 1..Len(normalized) : normalized[i] = n})]

\* a Counter updated as a plain dict is: the counts of other replace
CounterReplace(counter, other) ==
    [n \in DOMAIN counter \cup DOMAIN other |->
        IF n \in DOMAIN other THEN other[n] ELSE counter[n]]

\* Counter.update(other): counts are added
CounterUpdate(counter, other) ==
    [n \in DOMAIN counter \cup DOMAIN other |->
        (IF n \in DOMAIN counter THEN counter[n] ELSE 0)
      + (IF n \in DOMAIN other THEN other[n] ELSE 0)]

\* dict.update(other): the entries of other win
DictUpdate(dict, other) ==
    [k \in DOMAIN dict \cup DOMAIN other |->
        IF k \in DOMAIN other THEN other[k] ELSE dict[k]]

\* del counter[key] when the key is present
Without(counter, key) == [k \in DOMAIN counter \ {key} |-> counter[k]]

EmptyDict == [k \in {} |-> None]

(***************************************************************************)
(* The state: the three session attributes of one tokenizer, the class of  *)
(* the tokenizer, and what the last call was given and returned.           *)
(***************************************************************************)
VARIABLES tokens, frequencies, feature_sets, impl, ret

vars == <<tokens, frequencies, feature_sets, impl, ret>>

\* the identities of the objects the session still references
LiveOids(toks, fsets) ==
    {0}
    \cup {toks[i].feature_set.oid : i \in {j \in 1..Len(toks) : toks[j].feature_set # None}}
    \cup {toks[i].frequency.oid : i \in {j \in 1..Len(toks) : toks[j].frequency # None}}
    \cup {toks[i].frequency.feature_set.oid : i \in {j \in 1..Len(toks) : toks[j].frequency # None}}
    \cup {fsets[n].oid : n \in DOMAIN fsets}

\* the identity of the next object constructed: none of a live object
FreshOid(toks, fsets) == Max(LiveOids(toks, fsets)) + 1

(***************************************************************************)
(* The assembly loop of tokenize.  The accumulator holds the loop's locals; *)
(* fault is set when an index is out of range.                             *)
(***************************************************************************)
\* indices that start again at 0 in every call
BaseZero(toks) == 0

\* base = len(self.tokens)
Base(toks) == Len(toks)

\* the feature set of the form n, and the locals it changes
ResolveFeatureSet(acc, n, f, language) ==
    IF n \in DOMAIN acc.feature_sets
    THEN [acc EXCEPT !.feature_set = acc.feature_sets[n]]
    ELSE LET new == FeatureSet(acc.heap, n, language, f)
         IN  [acc EXCEPT !.feature_set = new,
                         !.feature_sets = DictUpdate(@, (n :> new)),
                         !.new_feature_sets = Append(@, new),
                         !.heap = @ + 1]

\* the Frequency of the form n, and the locals it changes
ResolveFrequency(acc, n, text, tally) ==
    IF n \in DOMAIN acc.frequency_list
    THEN [acc EXCEPT !.frequency = acc.frequency_list[n]]
    ELSE LET new == Frequency(acc.heap, text, acc.feature_set, tally[n])
         IN  [acc EXCEPT !.frequency = new,
                         !.frequency_list = DictUpdate(@, (n :> new)),
                         !.frequency_values = Append(@, new),
                         !.heap = @ + 1]

\* one iteration of 'for i, d in enumerate(display)'; i counts from 1 here
LoopBody(acc, i, d, base, normalized, featurized, tally, text, language) ==
    LET idx == (i - 1) + base
    IN  IF IsWordBearing(d)
        THEN IF acc.norm_i + 1 > Len(normalized) \/ acc.norm_i + 1 > Len(featurized)
             THEN [acc EXCEPT !.fault = "IndexError"]
             ELSE LET n == normalized[acc.norm_i + 1]
                      f == featurized[acc.norm_i + 1]
                      a1 == ResolveFeatureSet(acc, n, f, language)
                      a2 == ResolveFrequency(a1, n, text, tally)
                  IN  [a2 EXCEPT !.norm_i = @ + 1,
                                 !.tokens = Append(@, Token(text, idx, d,
                                                a2.feature_set, a2.frequency))]
        ELSE [acc EXCEPT !.tokens = Append(@, Token(text, idx, d, None, None))]

RECURSIVE Loop(_, _, _, _, _, _, _, _, _)
Loop(acc, i, display, base, normalized, featurized, tally, text, language) ==
    IF i > Len(display) \/ acc.fault # "none" THEN acc
    ELSE Loop(LoopBody(acc, i, display[i], base, normalized, featurized,
                       tally, text, language),
              i + 1, display, base, normalized, featurized, tally, text, language)

\* a per-call cache that starts empty, whatever the lookup returned
SeedCacheIgnored(found, language) == EmptyDict

\* feature_sets = {fs.form: fs for fs in feature_sets}
SeedCache(found, language) ==
    [n \in found.forms |-> PersistedFeatureSet(n, language)]

(***************************************************************************)
(* tokenize(raw, record, text) up to the update of the session: what the   *)
(* call raises or returns.  found is what connection.find answers: the     *)
(* forms it holds for the language, or Unavailable when the lookup fails.  *)
(***************************************************************************)
Unavailable == [ok |-> FALSE, forms |-> {}]

Found(forms) == [ok |-> TRUE, forms |-> forms]

\* What a call leaves behind: how it ended, the two streams its assembly loop
\* was given (none when it raised before the loop), and what it returned.
Outcome(outcome, normalized, display, acc) ==
    [outcome |-> outcome, normalized |-> normalized, display |-> display,
     tokens |-> acc.tokens, frequencies |-> acc.frequency_values,
     new_feature_sets |-> acc.new_feature_sets,
     feature_sets |-> acc.feature_sets, norm_i |-> acc.norm_i]

Locals(cache, heap) ==
    [norm_i |-> 0, tokens |-> <<>>, feature_sets |-> cache,
     frequency_list |-> EmptyDict, frequency_values |-> <<>>,
     new_feature_sets |-> <<>>, heap |-> heap,
     feature_set |-> None, frequency |-> None, fault |-> "none"]

Call(raw, text, found, cls, toks, fsets) ==
    LET normalized == NormalizedStream(raw)
        display == DisplayStream(raw)
        empty == Locals(EmptyDict, 0)
    IN  IF cls = "BaseTokenizer"
        THEN Outcome("NotImplementedError", <<>>, <<>>, empty)
        ELSE IF text = None
        THEN Outcome("AttributeError", <<>>, <<>>, empty)
        ELSE IF found = Unavailable
        THEN Outcome("CollaboratorUnavailable", <<>>, <<>>, empty)
        ELSE LET featurized == Featurized(normalized)
                 tally == Counter(normalized)
                 language == text.language
                 acc == Loop(Locals(SeedCache(found, language), FreshOid(toks, fsets)),
                             1, display, Base(toks), normalized, featurized,
                             tally, text, language)
             IN  IF acc.fault # "none"
                 THEN Outcome(acc.fault, normalized, display, empty)
                 ELSE Outcome("ok", normalized, display, acc)

(***************************************************************************)
(* The update of the session at the end of tokenize.                       *)
(***************************************************************************)
\* an update that does not look at record
RecordedAlways(call, record) == call.outcome = "ok"

\* an update made before the assembly loop has run
RecordedBeforeLoop(call, record) == record

\* 'if record:' is reached only by a call that did not raise
Recorded(call, record) == record /\ call.outcome = "ok"

TokensAfter(toks, call, record) ==
    IF Recorded(call, record) THEN toks \o call.tokens ELSE toks

FrequenciesAfter(freqs, call, record) ==
    IF Recorded(call, record)
    THEN CounterUpdate(IF <<>> \in DOMAIN freqs THEN Without(freqs, <<>>) ELSE freqs,
                       Counter(call.normalized))
    ELSE freqs

FeatureSetsAfter(fsets, call, record) ==
    IF Recorded(call, record) THEN DictUpdate(fsets, call.feature_sets) ELSE fsets

(***************************************************************************)
(* Inputs.                                                                 *)
(***************************************************************************)
\* The raw strings given to tokenize: the empty string, one word, a word
\* twice, a digit alone, a digit inside a word, a digit before a word, an
\* annotation span before an upper-case word, a newline between two words,
\* and a precomposed letter.
RawInputs ==
    { <<>>,
      <<"a">>,
      <<"a", " ", "a">>,
      <<"1">>,
      <<"a", "1", "a">>,
      <<"1", " ", "a">>,
      <<"<", "1", ">", " ", "B">>,
      <<"a", "\n", "B">>,
      <<"U+00E1">> }

TextInputs == {None, Text("latin")}

SeedForms == {<<"a">>}

FoundInputs == {Unavailable} \cup {Found(forms) : forms \in SUBSET SeedForms}

\* connection.find answers only the calls that reach line 126
FindReached(cls, text) == cls # "BaseTokenizer" /\ text # None

NotCalled == Found({})

Classes == {"BaseTokenizer", "LatinTokenizer"}

NoReturn == Outcome("none", <<>>, <<>>, Locals(EmptyDict, 0))

(***************************************************************************)
(* The operations.                                                         *)
(***************************************************************************)
\* __init__ ends with self.clear()
Init ==
    /\ tokens = <<>>
    /\ frequencies = EmptyDict
    /\ feature_sets = EmptyDict
    /\ impl \in Classes
    /\ ret = [op |-> "init", record |-> FALSE, text |-> None, found |-> NotCalled,
              call |-> NoReturn]

clear ==
    /\ tokens' = <<>>
    /\ frequencies' = EmptyDict
    /\ feature_sets' = EmptyDict
    /\ ret' = [op |-> "clear", record |-> FALSE, text |-> None, found |-> NotCalled,
               call |-> NoReturn]
    /\ UNCHANGED impl

tokenize ==
    \E raw \in RawInputs, record \in BOOLEAN, text \in TextInputs :
      \E found \in IF FindReached(impl, text) THEN FoundInputs ELSE {NotCalled} :
        /\ ret' = [op |-> "tokenize", record |-> record, text |-> text,
                   found |-> found,
                   call |-> Call(raw, text, found, impl, tokens, feature_sets)]
        /\ Recorded(ret'.call, record) =>
               Len(tokens) + Len(ret'.call.tokens) <= MaxTokens
        /\ tokens' = TokensAfter(tokens, ret'.call, record)
        /\ frequencies' = FrequenciesAfter(frequencies, ret'.call, record)
        /\ feature_sets' = FeatureSetsAfter(feature_sets, ret'.call, record)
        /\ UNCHANGED impl

Next == clear \/ tokenize

Spec == Init /\ [][Next]_vars

(***************************************************************************)
(* Vocabulary of the properties.                                           *)
(***************************************************************************)
\* the last operation was a tokenize call that returned
Returned(r) == r.op = "tokenize" /\ r.call.outcome = "ok"

\* the last operation was a tokenize call that raised
Raised(r) == r.op = "tokenize" /\ r.call.outcome # "ok"

\* the number of word-bearing tokens of a display stream
WordBearingCount(display) ==
    Cardinality({i \in 1..Len(display) : IsWordBearing(display[i])})

\* the number of occurrences of the form n in a normalized stream
Occurrences(normalized, n) ==
    Cardinality({i \in 1..Len(normalized) : normalized[i] = n})

FormsOf(normalized) == {normalized[i] : i \in 1..Len(normalized)}

\* the positions of the Tokens of a call that carry the form n
TokensOfForm(toks, n) ==
    {i \in 1..Len(toks) : toks[i].feature_set # None /\ toks[i].feature_set.form = n}

CountOf(counter, n) == IF n \in DOMAIN counter THEN counter[n] ELSE 0

IndicesOf(toks) == [k \in 1..Len(toks) |-> toks[k].index]

\* the call got as far as the assembly loop
ReachedLoop(r) ==
    /\ r.op = "tokenize"
    /\ r.call.outcome \notin {"NotImplementedError", "AttributeError",
                              "CollaboratorUnavailable"}

\* the forms the cursor has passed
ConsumedForms(call) == {call.normalized[i] : i \in 1..call.norm_i}

SessionEmpty ==
    /\ tokens = <<>>
    /\ DOMAIN frequencies = {}
    /\ DOMAIN feature_sets = {}

SessionUnchanged ==
    /\ tokens' = tokens
    /\ frequencies' = frequencies
    /\ feature_sets' = feature_sets

(***************************************************************************)
(* C1: a tokenize call with record=False leaves the session token list,    *)
(* the session frequency counter and the session feature-set cache equal   *)
(* to their values before the call.                                        *)
(***************************************************************************)
C1_DryRunLeavesSession ==
    [][(ret'.op = "tokenize" /\ ~ret'.record) => SessionUnchanged]_vars

\* a dry run that returned Tokens, made on a session that holds Tokens
C1_Witness ==
    /\ Returned(ret) /\ ~ret.record
    /\ ret.call.tokens # <<>>
    /\ ret.call.new_feature_sets # <<>>
    /\ tokens # <<>>

(***************************************************************************)
(* C2: a tokenize call that raises, whether it records or not, leaves the  *)
(* session token list, frequency counter and feature-set cache equal to    *)
(* their values before the call.                                           *)
(***************************************************************************)
C2_FailureLeavesSession ==
    [][Raised(ret') => SessionUnchanged]_vars

\* a recording call that raised in the assembly loop, on a session that
\* holds Tokens
C2_Witness ==
    /\ Raised(ret) /\ ret.record
    /\ ret.call.outcome = "IndexError"
    /\ ret.call.normalized # <<>>
    /\ tokens # <<>>

\* what a tokenize step does to the indices
C3_IndexStep ==
    /\ Returned(ret') =>
          \A k \in 1..Len(ret'.call.tokens) :
              ret'.call.tokens[k].index = (k - 1) + Len(tokens)
    /\ (Returned(ret) /\ ret.record /\ Returned(ret') /\ ret'.record) =>
          LET first == IndicesOf(ret.call.tokens)
              second == IndicesOf(ret'.call.tokens)
              both == first \o second
          IN  /\ \A i \in 1..Len(first), j \in 1..Len(second) : first[i] < second[j]
              /\ \A k \in 2..Len(both) : both[k] = both[k - 1] + 1

(***************************************************************************)
(* C3: every Token a returning call emits has as index its position in the *)
(* display stream plus the number of Tokens in the session when the call   *)
(* began; and of two consecutive returning record=True calls, the indices  *)
(* of the second all exceed those of the first, and the indices of both    *)
(* in order rise by one at each step.                                      *)
(***************************************************************************)
C3_IndexMonotonic == [][C3_IndexStep]_vars

\* a recording call that returned Tokens after an earlier one had
C3_Witness ==
    /\ Returned(ret) /\ ret.record
    /\ ret.call.tokens # <<>>
    /\ Len(tokens) > Len(ret.call.tokens)
    /\ ret.call.tokens[1].index > 0

(***************************************************************************)
(* C4: in a returning call, a form that occurs k times in the normalized   *)
(* stream is carried by exactly k Tokens, which all reference one          *)
(* FeatureSet and one Frequency, whose count is k.                         *)
(***************************************************************************)
C4_Dedup ==
    Returned(ret) =>
        \A n \in FormsOf(ret.call.normalized) :
            LET k == Occurrences(ret.call.normalized, n)
                at == TokensOfForm(ret.call.tokens, n)
            IN  /\ Cardinality(at) = k
                /\ \A i, j \in at :
                      /\ ret.call.tokens[i].feature_set = ret.call.tokens[j].feature_set
                      /\ ret.call.tokens[i].frequency = ret.call.tokens[j].frequency
                /\ \A i \in at : ret.call.tokens[i].frequency.frequency = k

(***************************************************************************)
(* C5: a call that reaches the assembly loop with fewer normalized tokens  *)
(* than word-bearing display tokens raises AlignmentBoundsError.           *)
(***************************************************************************)
C5_BoundsFault ==
    (/\ ReachedLoop(ret)
     /\ Len(ret.call.normalized) < WordBearingCount(ret.call.display))
        => ret.call.outcome = "AlignmentBoundsError"

(***************************************************************************)
(* C6: a call returns only when the number of word-bearing display tokens  *)
(* equals the number of normalized tokens, the cursor being at the end of  *)
(* the normalized stream.                                                  *)
(***************************************************************************)
C6_Alignment ==
    Returned(ret) =>
        /\ WordBearingCount(ret.call.display) = Len(ret.call.normalized)
        /\ ret.call.norm_i = Len(ret.call.normalized)

(***************************************************************************)
(* C7: in a returning call, no new FeatureSet is made for a form the       *)
(* persisted lookup returned, every Token of such a form references the    *)
(* FeatureSet the lookup returned, and new_feature_sets holds exactly one  *)
(* entry for each consumed form the lookup did not return.                 *)
(***************************************************************************)
C7_Seeding ==
    Returned(ret) =>
        LET call == ret.call
            seeded == ret.found.forms
            new == call.new_feature_sets
        IN  /\ \A n \in seeded :
                  /\ \A k \in 1..Len(new) : new[k].form # n
                  /\ \A i \in TokensOfForm(call.tokens, n) :
                        call.tokens[i].feature_set
                            = PersistedFeatureSet(n, ret.text.language)
            /\ {new[k].form : k \in 1..Len(new)} = ConsumedForms(call) \ seeded
            /\ \A j, k \in 1..Len(new) : new[j].form = new[k].form => j = k

\* a call whose Tokens carry a seeded form and a form that was not seeded
C7_Witness ==
    /\ Returned(ret)
    /\ \E i \in 1..Len(ret.call.tokens) :
          /\ ret.call.tokens[i].feature_set # None
          /\ ret.call.tokens[i].feature_set.form \in ret.found.forms
    /\ ret.call.new_feature_sets # <<>>

(***************************************************************************)
(* C8: a call without text metadata on a tokenizer that has a featurizer   *)
(* does not fail for want of the metadata.                                 *)
(***************************************************************************)
C8_TextAbsent ==
    (ret.op = "tokenize" /\ ret.text = None /\ impl # "BaseTokenizer")
        => ret.call.outcome # "AttributeError"

(***************************************************************************)
(* C9: a returning call constructs and reports no new FeatureSet for a     *)
(* form that the session feature-set cache held when the call began.       *)
(***************************************************************************)
C9_OncePerSession ==
    [][Returned(ret') =>
          \A k \in 1..Len(ret'.call.new_feature_sets) :
              ret'.call.new_feature_sets[k].form \notin DOMAIN feature_sets]_vars

\* what a tokenize step does to the session
C10_TokenizeStep ==
    ret'.op = "tokenize" =>
        LET forms == (DOMAIN frequencies \cup DOMAIN frequencies'
                        \cup FormsOf(ret'.call.normalized)) \ {<<>>}
            added(n) == IF Returned(ret') /\ ret'.record
                        THEN Occurrences(ret'.call.normalized, n)
                        ELSE 0
        IN  /\ \A n \in forms :
                  CountOf(frequencies', n) = CountOf(frequencies, n) + added(n)
            /\ Len(tokens') >= Len(tokens)
            /\ SubSeq(tokens', 1, Len(tokens)) = tokens
            /\ \A n \in DOMAIN frequencies \ {<<>>} :
                  n \in DOMAIN frequencies' /\ frequencies'[n] >= frequencies[n]
            /\ DOMAIN feature_sets \subseteq DOMAIN feature_sets'

(***************************************************************************)
(* C10: the session is empty after construction and after clear; a         *)
(* returning record=True call adds to the count of every form its          *)
(* occurrences in the call's normalized stream, and any other call changes *)
(* no count; and no tokenize call removes a Token, lowers the count of a   *)
(* non-empty form or removes a key of the feature-set cache.               *)
(***************************************************************************)
C10_Accumulation ==
    /\ [](ret.op \in {"init", "clear"} => SessionEmpty)
    /\ [][C10_TokenizeStep]_vars

\* a form counted over two recording calls
C10_Witness ==
    /\ Returned(ret) /\ ret.record
    /\ ret.call.normalized # <<>>
    /\ \E n \in FormsOf(ret.call.normalized) :
          frequencies[n] > Occurrences(ret.call.normalized, n)
====
